---- MODULE Spec2Model ----
(***************************************************************************)
(* Model of the appointment-scheduling bot in src/main.py: the time-slot   *)
(* normaliser formatar_horario, the booking ledger `agenda` with           *)
(* verificar_agendamento, and the dialogue handler handle_message with the *)
(* per-user context.user_data.                                             *)
(*                                                                         *)
(* A Python str is modelled as a sequence of characters, each character a  *)
(* one-character TLA+ string, so that isdigit, int, split, lower and the   *)
(* :02d formatting are computed as Python computes them.  The character    *)
(* "sup2" stands for U+00B2 (SUPERSCRIPT TWO), a character for which       *)
(* str.isdigit() is True while int() raises ValueError.                    *)
(***************************************************************************)
EXTENDS Integers, Sequences, FiniteSets, TLC

VARIABLES
    agenda,     \* the global dict `agenda`, in insertion order: a sequence of
                \* [hora, cliente, servico], one entry per key `hora`
    user_data,  \* context.user_data of every user: a dict (a function whose
                \* domain is the set of keys present)
    update,     \* the inbound message last handled: update_id, user, text, and
                \* the exception that ended its handler, if any
    replies,    \* the reply_text calls of the last handled message, in order
    call,       \* the call of verificar_agendamento made by the last step, if
                \* any: arguments, ledger before, result, and the call of the
                \* step before
    norm,       \* the last evaluation of formatar_horario: input and outcome
    log,        \* for the runs that follow one dialogue: the ledger the run
                \* started from and the texts sent since, in order
    tasks       \* for the runs with handlers in flight: each handler
                \* coroutine suspended at an await, with what it has left

vars == <<agenda, user_data, update, replies, call, norm, log, tasks>>

----------------------------------------------------------------------------
(* Python str primitives                                                   *)

DecimalDigits == {"0", "1", "2", "3", "4", "5", "6", "7", "8", "9"}

\* Characters with str.isdigit() True that int() does not accept.
OtherDigits == {"sup2"}

DigitValue(c) ==
    CASE c = "0" -> 0 [] c = "1" -> 1 [] c = "2" -> 2 [] c = "3" -> 3
      [] c = "4" -> 4 [] c = "5" -> 5 [] c = "6" -> 6 [] c = "7" -> 7
      [] c = "8" -> 8 [] c = "9" -> 9

DigitChar(d) ==
    CASE d = 0 -> "0" [] d = 1 -> "1" [] d = 2 -> "2" [] d = 3 -> "3"
      [] d = 4 -> "4" [] d = 5 -> "5" [] d = 6 -> "6" [] d = 7 -> "7"
      [] d = 8 -> "8" [] d = 9 -> "9"

\* str.isdigit(): non-empty and every character a digit character.
isdigit(s) ==
    /\ Len(s) > 0
    /\ \A i \in 1..Len(s) : s[i] \in DecimalDigits \cup OtherDigits

\* int(s) raises ValueError unless s is a non-empty run of decimal digits
\* (the callers only pass strings for which isdigit holds).
IntRaises(s) == Len(s) = 0 \/ \E i \in 1..Len(s) : s[i] \notin DecimalDigits

RECURSIVE IntOf(_)
IntOf(s) ==
    IF Len(s) = 0 THEN 0
    ELSE 10 * IntOf(SubSeq(s, 1, Len(s) - 1)) + DigitValue(s[Len(s)])

\* str(n) for n >= 0.
RECURSIVE StrOfNat(_)
StrOfNat(n) ==
    IF n < 10 THEN <<DigitChar(n)>>
    ELSE Append(StrOfNat(n \div 10), DigitChar(n % 10))

\* f"{n:02d}" for n >= 0: zero-padded to width 2, never truncated.
Format02d(n) == IF n < 10 THEN <<"0">> \o StrOfNat(n) ELSE StrOfNat(n)

\* s.split(':'): the parts between the colons, empty parts kept.
RECURSIVE SplitFrom(_, _, _)
SplitFrom(s, i, cur) ==
    IF i > Len(s) THEN <<cur>>
    ELSE IF s[i] = ":" THEN <<cur>> \o SplitFrom(s, i + 1, <<>>)
    ELSE SplitFrom(s, i + 1, Append(cur, s[i]))

split(s) == SplitFrom(s, 1, <<>>)

\* ':' in s
HasColon(s) == \E i \in 1..Len(s) : s[i] = ":"

LowerChar(c) ==
    CASE c = "A" -> "a" [] c = "S" -> "s" [] c = "M" -> "m"
      [] OTHER -> c

\* str.lower()
lower(s) == [i \in 1..Len(s) |-> LowerChar(s[i])]

----------------------------------------------------------------------------
(* formatar_horario: the time-slot normaliser                              *)

\* The outcome of a call: a returned str, a returned None, or an exception.
ReturnStr(v) == [kind |-> "str", val |-> v]
ReturnNone == [kind |-> "None", val |-> <<>>]
RaiseValueError == [kind |-> "ValueError", val |-> <<>>]

formatar_horario(message_text) ==
    IF isdigit(message_text)
    THEN \* `message_text.isdigit() and 9 <= int(message_text) <= 17`
         IF IntRaises(message_text) THEN RaiseValueError
         ELSE IF 9 <= IntOf(message_text) /\ IntOf(message_text) <= 17
              THEN ReturnStr(message_text \o <<":", "0", "0">>)
              ELSE ReturnNone   \* an all-digit text holds no ':'
    ELSE IF HasColon(message_text)
    THEN LET partes == split(message_text) IN
         IF Len(partes) = 2 /\ isdigit(partes[1]) /\ isdigit(partes[2])
         THEN IF IntRaises(partes[1]) \/ IntRaises(partes[2])
              THEN RaiseValueError
              ELSE LET hora == IntOf(partes[1])
                       minutos == IntOf(partes[2])
                   IN IF 9 <= hora /\ hora <= 17 /\ 0 <= minutos /\ minutos < 60
                      THEN ReturnStr(Format02d(hora) \o <<":">> \o Format02d(minutos))
                      ELSE ReturnNone
         ELSE ReturnNone
    ELSE ReturnNone

----------------------------------------------------------------------------
(* agenda and verificar_agendamento: the booking ledger                    *)

\* Mutant: the membership test looks at the oldest entry only.
InAgendaFirstOnly(ag, horario) == Len(ag) > 0 /\ ag[1].hora = horario

\* `horario in agenda`
InAgenda(ag, horario) == \E i \in 1..Len(ag) : ag[i].hora = horario

\* Mutant: the cancelling loop stops after the first key of the ledger.
DeleteFirstEntryOnly(ag, cliente) ==
    IF Len(ag) > 0 /\ ag[1].cliente = cliente THEN Tail(ag) ELSE ag

\* Mutant: the cancelling loop is left out.
DeleteNone(ag, cliente) == ag

\* The loop of lines 21-23: every entry whose cliente is `cliente` is deleted.
DeleteCliente(ag, cliente) ==
    LET Keep(b) == b.cliente # cliente IN SelectSeq(ag, Keep)

\* Mutant: the slot is assigned without the `horario in agenda` test, so an
\* entry already under that key is replaced in place.
verificar_overwrite(ag, horario, cliente, servico) ==
    LET rest == DeleteCliente(ag, cliente)
        new == [hora |-> horario, cliente |-> cliente, servico |-> servico]
    IN [agenda |-> IF InAgenda(rest, horario)
                   THEN [i \in 1..Len(rest) |->
                            IF rest[i].hora = horario THEN new ELSE rest[i]]
                   ELSE Append(rest, new),
        ret |-> TRUE]

\* Mutant: the slot is tested before the client's entries are cancelled, and
\* a conflict returns at once, cancelling nothing.
verificar_check_first(ag, horario, cliente, servico) ==
    IF \E i \in 1..Len(ag) : ag[i].hora = horario /\ ag[i].cliente # cliente
    THEN [agenda |-> ag, ret |-> FALSE]
    ELSE [agenda |-> Append(DeleteCliente(ag, cliente),
                            [hora |-> horario, cliente |-> cliente,
                             servico |-> servico]),
          ret |-> TRUE]

\* Mutant: `horario in agenda` is evaluated before the cancellation loop.
verificar_lookup_first(ag, horario, cliente, servico) ==
    IF InAgenda(ag, horario)
    THEN [agenda |-> DeleteCliente(ag, cliente), ret |-> FALSE]
    ELSE [agenda |-> Append(DeleteCliente(ag, cliente),
                            [hora |-> horario, cliente |-> cliente,
                             servico |-> servico]),
          ret |-> TRUE]

\* The ledger after the call and the value returned.
verificar_agendamento(ag, horario, cliente, servico) ==
    LET rest == DeleteCliente(ag, cliente) IN
    IF InAgenda(rest, horario)
    THEN [agenda |-> rest, ret |-> FALSE]
    ELSE [agenda |-> Append(rest, [hora |-> horario, cliente |-> cliente,
                                   servico |-> servico]),
          ret |-> TRUE]

----------------------------------------------------------------------------
(* context.user_data: one dict per user                                    *)

EmptyDict == [k \in {} |-> k]

\* d[k] = v
Put(d, k, v) == [x \in DOMAIN d \cup {k} |-> IF x = k THEN v ELSE d[x]]

\* d.get('stage'): the stage, or None when the key is absent
GetStage(d) == IF "stage" \in DOMAIN d THEN d["stage"] ELSE "None"

----------------------------------------------------------------------------
(* The texts of the dialogue                                               *)

AGENDAR == <<"a", "g", "e", "n", "d", "a", "r">>
OBRIGADO == <<"o", "b", "r", "i", "g", "a", "d", "o">>
SIM == <<"s", "i", "m">>
VER_AGENDAMENTOS ==
    <<"v", "e", "r", " ", "a", "g", "e", "n", "d", "a", "m", "e", "n", "t", "o", "s">>

\* servicos.get(code): the service name, or None for an unknown code
servicos(code) ==
    CASE code = <<"1">> -> "Corte de cabelo"
      [] code = <<"2">> -> "Barba"
      [] code = <<"3">> -> "Corte e Barba"
      [] OTHER -> "None"

\* One reply_text call: the fixed wording and the values formatted into it.
Reply(text) ==
    [text |-> text, cliente |-> <<>>, servico_nome |-> "", horario |-> <<>>,
     linhas |-> <<>>]

\* The lines of the "ver agendamentos" listing: agenda.items() in dict order.
Listing(ag) ==
    [i \in 1..Len(ag) |->
        [hora |-> ag[i].hora, cliente |-> ag[i].cliente,
         servico_nome |-> servicos(ag[i].servico)]]

\* A call of verificar_agendamento: its arguments, the ledger it found and
\* the value it returned; `prev` is filled in by the step that records it.
NoPrev ==
    [made |-> FALSE, before |-> <<>>, horario |-> <<>>, cliente |-> <<>>,
     ret |-> FALSE]

CallOf(ag, horario, cliente, servico) ==
    [made |-> TRUE, before |-> ag, horario |-> horario, cliente |-> cliente,
     servico |-> servico,
     ret |-> verificar_agendamento(ag, horario, cliente, servico).ret,
     prev |-> NoPrev]

NoCall ==
    [made |-> FALSE, before |-> <<>>, horario |-> <<>>, cliente |-> <<>>,
     servico |-> <<>>, ret |-> FALSE, prev |-> NoPrev]

\* The record of this step's call, with what the step before it called.
Record(cl) ==
    [cl EXCEPT !.prev = [made |-> call.made, before |-> call.before,
                         horario |-> call.horario, cliente |-> call.cliente,
                         ret |-> call.ret]]

NoNorm == [made |-> FALSE, text |-> <<>>, kind |-> "None", val |-> <<>>]

NormOf(text) ==
    LET r == formatar_horario(text)
    IN [made |-> TRUE, text |-> text, kind |-> r.kind, val |-> r.val]

----------------------------------------------------------------------------
(* handle_message                                                          *)

\* What one run of the handler leaves behind: the user's dict, the ledger,
\* the replies sent, the calls made, and the exception that ended it if any.
Outcome(data, ag, reps, cl, nm, err) ==
    [data |-> data, agenda |-> ag, replies |-> reps, call |-> cl, norm |-> nm,
     error |-> err]

\* Lines 55-57: "agendar", at whatever stage.
CommandAgendar(data, ag) ==
    Outcome(Put(data, "stage", "nome"), ag,
            <<Reply("Qual e o seu nome?")>>, NoCall, NoNorm, "")

\* Mutant: "obrigado" starts the follow-up from an empty dict.
CommandObrigadoClears(data, ag) ==
    Outcome(Put(EmptyDict, "stage", "finalizar"), ag,
            <<Reply("De nada, deseja mais alguma ajuda?")>>, NoCall, NoNorm, "")

\* Lines 58-60: "obrigado", at whatever stage.
CommandObrigado(data, ag) ==
    Outcome(Put(data, "stage", "finalizar"), ag,
            <<Reply("De nada, deseja mais alguma ajuda?")>>, NoCall, NoNorm, "")

\* Mutant: the stage is advanced but the name is not stored.
StageNomeNoStore(data, ag, message_text) ==
    Outcome(Put(data, "stage", "servico"), ag,
            <<Reply("Escolha o numero do servico desejado")>>, NoCall, NoNorm, "")

\* Mutant: a name already in the dict is kept (setdefault).
StageNomeSetDefault(data, ag, message_text) ==
    Outcome(Put(IF "nome" \in DOMAIN data THEN data
                ELSE Put(data, "nome", message_text),
                "stage", "servico"), ag,
            <<Reply("Escolha o numero do servico desejado")>>, NoCall, NoNorm, "")

\* Mutant: the name is stored but the stage is not advanced.
StageNomeNoAdvance(data, ag, message_text) ==
    Outcome(Put(data, "nome", message_text), ag,
            <<Reply("Escolha o numero do servico desejado")>>, NoCall, NoNorm, "")

\* Lines 61-64: the branch of stage 'nome'.
StageNome(data, ag, message_text) ==
    Outcome(Put(Put(data, "nome", message_text), "stage", "servico"), ag,
            <<Reply("Escolha o numero do servico desejado")>>, NoCall, NoNorm, "")

\* Mutant: the option is stored without being validated.
StageServicoAcceptAny(data, ag, message_text) ==
    Outcome(Put(Put(data, "servico", message_text), "stage", "horario"), ag,
            <<Reply("Digite o horario entre as 09:00 ate as 17:00")>>,
            NoCall, NoNorm, "")

\* Lines 65-72: the branch of stage 'servico'.
StageServico(data, ag, message_text) ==
    IF message_text \notin {<<"1">>, <<"2">>, <<"3">>}
    THEN Outcome(data, ag, <<Reply("Opcao invalida")>>, NoCall, NoNorm, "")
    ELSE Outcome(Put(Put(data, "servico", message_text), "stage", "horario"), ag,
                 <<Reply("Digite o horario entre as 09:00 ate as 17:00")>>,
                 NoCall, NoNorm, "")

\* Mutant: the dict is not cleared after a booking.
StageHorarioNoClear(data, ag, message_text) ==
    LET nm == NormOf(message_text) IN
    IF nm.kind = "ValueError"
    THEN Outcome(data, ag, <<>>, NoCall, nm, "ValueError")
    ELSE IF nm.kind = "None"
    THEN Outcome(data, ag, <<Reply("Formato de horario invalido")>>, NoCall, nm, "")
    ELSE IF "nome" \notin DOMAIN data \/ "servico" \notin DOMAIN data
    THEN Outcome(data, ag, <<>>, NoCall, nm, "KeyError")
    ELSE LET r == verificar_agendamento(ag, nm.val, data["nome"], data["servico"])
         IN Outcome(data, r.agenda, <<Reply("Agendado")>>,
                    CallOf(ag, nm.val, data["nome"], data["servico"]), nm, "")

\* Mutant: the client's booking is cancelled before the time is validated.
StageHorarioCancelFirst(data, ag, message_text) ==
    LET nm == NormOf(message_text) IN
    IF nm.kind = "ValueError"
    THEN Outcome(data, ag, <<>>, NoCall, nm, "ValueError")
    ELSE IF "nome" \notin DOMAIN data \/ "servico" \notin DOMAIN data
    THEN Outcome(data, ag, <<>>, NoCall, nm, "KeyError")
    ELSE IF nm.kind = "None"
    THEN Outcome(data, DeleteCliente(ag, data["nome"]),
                 <<Reply("Formato de horario invalido")>>, NoCall, nm, "")
    ELSE LET r == verificar_agendamento(ag, nm.val, data["nome"], data["servico"])
         IN Outcome(IF r.ret THEN EmptyDict ELSE data, r.agenda,
                    <<Reply("Agendado")>>,
                    CallOf(ag, nm.val, data["nome"], data["servico"]), nm, "")

\* Mutant: an invalid time ends the dialogue instead of asking again.
StageHorarioResetOnInvalid(data, ag, message_text) ==
    LET nm == NormOf(message_text) IN
    IF nm.kind = "ValueError"
    THEN Outcome(data, ag, <<>>, NoCall, nm, "ValueError")
    ELSE IF nm.kind = "None"
    THEN Outcome(EmptyDict, ag, <<Reply("Formato de horario invalido")>>,
                 NoCall, nm, "")
    ELSE IF "nome" \notin DOMAIN data \/ "servico" \notin DOMAIN data
    THEN Outcome(data, ag, <<>>, NoCall, nm, "KeyError")
    ELSE LET r == verificar_agendamento(ag, nm.val, data["nome"], data["servico"])
         IN Outcome(IF r.ret THEN EmptyDict ELSE data, r.agenda,
                    <<Reply("Agendado")>>,
                    CallOf(ag, nm.val, data["nome"], data["servico"]), nm, "")

\* Lines 73-90: the branch of stage 'horario'.
StageHorario(data, ag, message_text) ==
    LET nm == NormOf(message_text) IN
    IF nm.kind = "ValueError"
    THEN Outcome(data, ag, <<>>, NoCall, nm, "ValueError")
    ELSE IF nm.kind = "None"
    THEN Outcome(data, ag, <<Reply("Formato de horario invalido")>>, NoCall, nm, "")
    ELSE IF "nome" \notin DOMAIN data \/ "servico" \notin DOMAIN data
    THEN Outcome(data, ag, <<>>, NoCall, nm, "KeyError")
    ELSE LET horario == nm.val
             cliente == data["nome"]
             servico == data["servico"]
             r == verificar_agendamento(ag, horario, cliente, servico)
             cl == CallOf(ag, horario, cliente, servico)
         IN IF r.ret
            THEN Outcome(EmptyDict, r.agenda,
                         << [Reply("Agendado") EXCEPT
                                !.cliente = cliente,
                                !.servico_nome = servicos(servico),
                                !.horario = horario],
                            Reply("Obrigado! Tenha um otimo dia!") >>,
                         cl, nm, "")
            ELSE Outcome(data, r.agenda,
                         << [Reply("O horario ja esta ocupado") EXCEPT
                                !.horario = horario] >>,
                         cl, nm, "")

\* Mutant: the emptiness of the ledger is not tested.
VerAgendamentosAlwaysLists(data, ag) ==
    Outcome(data, ag,
            <<[Reply("Agendamentos do dia") EXCEPT !.linhas = Listing(ag)]>>,
            NoCall, NoNorm, "")

\* Lines 91-97: "ver agendamentos", read when no earlier branch was taken.
VerAgendamentos(data, ag) ==
    IF Len(ag) > 0
    THEN Outcome(data, ag,
                 <<[Reply("Agendamentos do dia") EXCEPT !.linhas = Listing(ag)]>>,
                 NoCall, NoNorm, "")
    ELSE Outcome(data, ag, <<Reply("Nao ha agendamentos em espera.")>>,
                 NoCall, NoNorm, "")

\* Mutant: the closing message is sent but the dict is not cleared.
StageFinalizarNoClear(data, ag, message_text) ==
    IF message_text = SIM
    THEN Outcome(Put(data, "stage", "opcao"), ag,
                 <<Reply("Digite: 1. Reagendar 2. Falar com a recepcao 3. Finalizar")>>,
                 NoCall, NoNorm, "")
    ELSE Outcome(data, ag, <<Reply("Obrigado! Tenha um otimo dia!")>>,
                 NoCall, NoNorm, "")

\* Lines 98-104: the branch of stage 'finalizar'.
StageFinalizar(data, ag, message_text) ==
    IF message_text = SIM
    THEN Outcome(Put(data, "stage", "opcao"), ag,
                 <<Reply("Digite: 1. Reagendar 2. Falar com a recepcao 3. Finalizar")>>,
                 NoCall, NoNorm, "")
    ELSE Outcome(EmptyDict, ag, <<Reply("Obrigado! Tenha um otimo dia!")>>,
                 NoCall, NoNorm, "")

\* Mutant: an invalid option ends the dialogue like option 3.
StageOpcaoResetOnInvalid(data, ag, message_text) ==
    IF message_text = <<"1">>
    THEN Outcome(Put(data, "stage", "nome"), ag,
                 <<Reply("Qual e o seu nome?")>>, NoCall, NoNorm, "")
    ELSE IF message_text = <<"2">>
    THEN Outcome(EmptyDict, ag, <<Reply("Voce esta em espera.")>>,
                 NoCall, NoNorm, "")
    ELSE Outcome(EmptyDict, ag, <<Reply("Opcao invalida")>>, NoCall, NoNorm, "")

\* Mutant: option 2 leaves the dict as it was while the user waits.
StageOpcaoWaitKeepsSession(data, ag, message_text) ==
    IF message_text = <<"1">>
    THEN Outcome(Put(data, "stage", "nome"), ag,
                 <<Reply("Qual e o seu nome?")>>, NoCall, NoNorm, "")
    ELSE IF message_text = <<"2">>
    THEN Outcome(data, ag, <<Reply("Voce esta em espera.")>>,
                 NoCall, NoNorm, "")
    ELSE IF message_text = <<"3">>
    THEN Outcome(EmptyDict, ag, <<Reply("Obrigado! Tenha um otimo dia!")>>,
                 NoCall, NoNorm, "")
    ELSE Outcome(data, ag, <<Reply("Opcao invalida")>>, NoCall, NoNorm, "")

\* Mutant: option 1 asks for the new time only and keeps name and service.
StageOpcaoRebookSkipsName(data, ag, message_text) ==
    IF message_text = <<"1">>
    THEN Outcome(Put(data, "stage", "horario"), ag,
                 <<Reply("Digite o horario entre as 09:00 ate as 17:00")>>,
                 NoCall, NoNorm, "")
    ELSE IF message_text = <<"2">>
    THEN Outcome(EmptyDict, ag, <<Reply("Voce esta em espera.")>>,
                 NoCall, NoNorm, "")
    ELSE IF message_text = <<"3">>
    THEN Outcome(EmptyDict, ag, <<Reply("Obrigado! Tenha um otimo dia!")>>,
                 NoCall, NoNorm, "")
    ELSE Outcome(data, ag, <<Reply("Opcao invalida")>>, NoCall, NoNorm, "")

\* Lines 105-116: the branch of stage 'opcao'.
StageOpcao(data, ag, message_text) ==
    IF message_text = <<"1">>
    THEN Outcome(Put(data, "stage", "nome"), ag,
                 <<Reply("Qual e o seu nome?")>>, NoCall, NoNorm, "")
    ELSE IF message_text = <<"2">>
    THEN Outcome(EmptyDict, ag, <<Reply("Voce esta em espera.")>>,
                 NoCall, NoNorm, "")
    ELSE IF message_text = <<"3">>
    THEN Outcome(EmptyDict, ag, <<Reply("Obrigado! Tenha um otimo dia!")>>,
                 NoCall, NoNorm, "")
    ELSE Outcome(data, ag, <<Reply("Opcao invalida")>>, NoCall, NoNorm, "")

\* Mutant: the greeting also opens the booking dialogue.
GreetingStartsDialogue(data, ag) ==
    Outcome(Put(data, "stage", "nome"), ag,
            <<Reply("tudo bom? Caso queira agendar um servico, digite agendar.")>>,
            NoCall, NoNorm, "")

\* Lines 117-119: the greeting; its wording depends on the clock and is not
\* modelled.
Greeting(data, ag) ==
    Outcome(data, ag,
            <<Reply("tudo bom? Caso queira agendar um servico, digite agendar.")>>,
            NoCall, NoNorm, "")

\* Lines 55-119: the if/elif chain, in the order of the source.
Dispatch(data, ag, message_text) ==
    LET stage == GetStage(data) IN
    IF message_text = AGENDAR
    THEN CommandAgendar(data, ag)
    ELSE IF message_text = OBRIGADO
    THEN CommandObrigado(data, ag)
    ELSE IF stage = "nome"
    THEN StageNome(data, ag, message_text)
    ELSE IF stage = "servico"
    THEN StageServico(data, ag, message_text)
    ELSE IF stage = "horario"
    THEN StageHorario(data, ag, message_text)
    ELSE IF message_text = VER_AGENDAMENTOS
    THEN VerAgendamentos(data, ag)
    ELSE IF stage = "finalizar"
    THEN StageFinalizar(data, ag, message_text)
    ELSE IF stage = "opcao"
    THEN StageOpcao(data, ag, message_text)
    ELSE Greeting(data, ag)

\* Mutant: one dict is shared by all users instead of context.user_data.
handle_message_shared_dict(u, text) ==
    LET r == Dispatch(user_data[u], agenda, lower(text)) IN
    /\ agenda' = r.agenda
    /\ user_data' = [v \in DOMAIN user_data |-> r.data]
    /\ update' = [update_id |-> update.update_id + 1, user |-> u, text |-> text,
                  error |-> r.error]
    /\ replies' = r.replies
    /\ call' = Record(r.call)
    /\ norm' = r.norm

\* The handler run for one inbound message `text` of user u.  The handler
\* runs to completion before the next update is taken.
handle_message(u, text) ==
    LET r == Dispatch(user_data[u], agenda, lower(text)) IN
    /\ agenda' = r.agenda
    /\ user_data' = [user_data EXCEPT ![u] = r.data]
    /\ update' = [update_id |-> update.update_id + 1, user |-> u, text |-> text,
                  error |-> r.error]
    /\ replies' = r.replies
    /\ call' = Record(r.call)
    /\ norm' = r.norm

----------------------------------------------------------------------------
(* The dialogue: any user sends any text at any time                       *)

Users == {"u1", "u2"}

ANA == <<"a", "n", "a">>
LEO == <<"l", "e", "o">>

\* The texts the users send.
Texts ==
    { AGENDAR, ANA, LEO, <<"1">>, <<"9">>, <<"0", "9", ":", "0", "0">>,
      <<"1", "7", ":", "3", "0">> }

\* The number of updates delivered in a run.
MaxUpdates == 8

NoLog == [start |-> <<>>, texts |-> <<>>]

\* The handler coroutines that can be in flight at once, none of them started.
Tasks == {1, 2}
NoTask == [busy |-> FALSE, u |-> "", rest |-> <<>>, write |-> "none"]
NoTasks == [t \in Tasks |-> NoTask]

NoUpdate == [update_id |-> 0, user |-> "", text |-> <<>>, error |-> ""]

Init ==
    /\ agenda = <<>>
    /\ user_data = [u \in Users |-> EmptyDict]
    /\ update = NoUpdate
    /\ replies = <<>>
    /\ call = NoCall
    /\ norm = NoNorm
    /\ log = NoLog
    /\ tasks = NoTasks

Next ==
    /\ update.update_id < MaxUpdates
    /\ \E u \in Users, text \in Texts : handle_message(u, text)
    /\ UNCHANGED <<log, tasks>>

Spec == Init /\ [][Next]_vars

----------------------------------------------------------------------------
(* The ledger alone: verificar_agendamento called with any arguments the   *)
(* dialogue can pass it                                                    *)

BIA == <<"b", "i", "a">>

\* Keys formatar_horario returns: "9" gives 9:00, "09:00" gives 09:00,
\* "10" gives 10:00.
Horarios ==
    { formatar_horario(t).val :
        t \in { <<"9">>, <<"0", "9", ":", "0", "0">>, <<"1", "0">> } }

Clientes == {ANA, LEO, BIA}

Servicos == {<<"1">>, <<"2">>}

VerificarAgendamento(horario, cliente, servico) ==
    /\ agenda' = verificar_agendamento(agenda, horario, cliente, servico).agenda
    /\ call' = Record(CallOf(agenda, horario, cliente, servico))
    /\ UNCHANGED <<user_data, update, replies, norm, log, tasks>>

NextLedger ==
    \E horario \in Horarios, cliente \in Clientes, servico \in Servicos :
        VerificarAgendamento(horario, cliente, servico)

SpecLedger == Init /\ [][NextLedger]_vars

----------------------------------------------------------------------------
(* The normaliser alone: formatar_horario applied to every short text      *)

\* The longest text given to formatar_horario.
MaxLen == 5

NormChars == {"0", "1", "7", "9", ":", "a", "sup2"}

RawTexts == UNION { [1..n -> NormChars] : n \in 1..MaxLen }

FormatarHorario(text) ==
    /\ ~norm.made
    /\ norm' = NormOf(text)
    /\ UNCHANGED <<agenda, user_data, update, replies, call, log, tasks>>

NextNorm == \E text \in RawTexts : FormatarHorario(text)

SpecNorm == Init /\ [][NextNorm]_vars

----------------------------------------------------------------------------
(* One sender, every kind of text: control words in both cases, menu       *)
(* digits, times, names, and a digit character int() rejects               *)

ANA_CAPITAL == <<"A", "n", "a">>

TextsAll ==
    { AGENDAR, OBRIGADO, SIM, VER_AGENDAMENTOS, <<"1">>, <<"2">>, <<"3">>,
      <<"9">>, <<"0", "9", ":", "0", "0">>, ANA, ANA_CAPITAL, LEO, <<"sup2">> }

NextSolo ==
    /\ update.update_id < MaxUpdates
    /\ \E text \in TextsAll : handle_message("u1", text)
    /\ UNCHANGED <<log, tasks>>

SpecSolo == Init /\ [][NextSolo]_vars

----------------------------------------------------------------------------
(* One dialogue of four messages, followed text by text, started with a    *)
(* fresh session on a ledger that earlier bookings left behind             *)

\* The ledgers that up to two bookings leave behind.
SeedHorarios == {<<"9", ":", "0", "0">>, <<"0", "9", ":", "0", "0">>}

AfterOne ==
    { verificar_agendamento(<<>>, h, c, <<"1">>).agenda :
        h \in SeedHorarios, c \in {ANA, LEO} }

AfterTwo ==
    { verificar_agendamento(ag, h, c, <<"2">>).agenda :
        ag \in AfterOne, h \in SeedHorarios, c \in {ANA, LEO} }

Seeds == {<<>>} \cup AfterOne \cup AfterTwo

ScenarioTexts ==
    { AGENDAR, OBRIGADO, ANA, ANA_CAPITAL, LEO, <<"1">>, <<"2">>, <<"3">>,
      <<"9">>, <<"0", "9", ":", "0", "0">>, <<"1", "8">> }

InitScenario ==
    /\ agenda \in Seeds
    /\ user_data = [u \in Users |-> EmptyDict]
    /\ update = NoUpdate
    /\ replies = <<>>
    /\ call = NoCall
    /\ norm = NoNorm
    /\ log = [start |-> agenda, texts |-> <<>>]
    /\ tasks = NoTasks

\* "agendar", a name, a service code, a time: four messages.
NextScenario ==
    /\ Len(log.texts) < 4
    /\ \E text \in ScenarioTexts :
          /\ handle_message("u1", text)
          /\ log' = [log EXCEPT !.texts = Append(@, text)]
    /\ UNCHANGED tasks

SpecScenario == InitScenario /\ [][NextScenario]_vars

----------------------------------------------------------------------------
(* The listing: messages sent while the ledger holds what up to two         *)
(* earlier booking dialogues left in it                                     *)

\* The times the earlier dialogues were given, as the users typed them.
TypedTimes == { <<"9">>, <<"1", "0">>, <<"0", "9", ":", "3", "0">> }

BookedOnce ==
    { verificar_agendamento(<<>>, formatar_horario(t).val, c, <<"1">>).agenda :
        t \in TypedTimes, c \in {ANA, LEO} }

BookedTwice ==
    { verificar_agendamento(ag, formatar_horario(t).val, c, <<"2">>).agenda :
        ag \in BookedOnce, t \in TypedTimes, c \in {ANA, LEO} }

\* "agendar" typed with a trailing space.
AGENDAR_SPACE == AGENDAR \o <<" ">>

ListingTexts ==
    { VER_AGENDAMENTOS, AGENDAR, AGENDAR_SPACE, OBRIGADO, SIM, ANA,
      <<"1">>, <<"9">> }

InitListing ==
    /\ agenda \in {<<>>} \cup BookedOnce \cup BookedTwice
    /\ user_data = [u \in Users |-> EmptyDict]
    /\ update = NoUpdate
    /\ replies = <<>>
    /\ call = NoCall
    /\ norm = NoNorm
    /\ log = NoLog
    /\ tasks = NoTasks

NextListing ==
    /\ update.update_id < MaxUpdates
    /\ \E text \in ListingTexts : handle_message("u1", text)
    /\ UNCHANGED <<log, tasks>>

SpecListing == InitListing /\ [][NextListing]_vars

----------------------------------------------------------------------------
(* Handlers in flight: handle_message as a coroutine.  It gives up control  *)
(* only at an `await update.message.reply_text(...)`; the code between two  *)
(* awaits runs without interruption.  Two messages are handled, possibly    *)
(* overlapping, from sessions and ledgers that earlier messages left.       *)

\* The write to user_data that the branch makes after its awaits: lines
\* 58-59 and 99-101 set the stage after the reply, lines 84-90, 103-104 and
\* 109-114 clear the dict after the replies.  Every other write to
\* user_data, and the call of verificar_agendamento, come before the
\* branch's first await.
AfterAwait(data, ag, message_text) ==
    LET stage == GetStage(data) IN
    IF message_text = AGENDAR THEN "none"
    ELSE IF message_text = OBRIGADO THEN "finalizar"
    ELSE IF stage \in {"nome", "servico"} THEN "none"
    ELSE IF stage = "horario"
    THEN LET r == StageHorario(data, ag, message_text)
         IN IF r.call.made /\ r.call.ret THEN "clear" ELSE "none"
    ELSE IF message_text = VER_AGENDAMENTOS THEN "none"
    ELSE IF stage = "finalizar"
    THEN IF message_text = SIM THEN "opcao" ELSE "clear"
    ELSE IF stage = "opcao" /\ message_text \in {<<"2">>, <<"3">>} THEN "clear"
    ELSE "none"

\* The write, made on the dict as it is when the coroutine resumes.
ApplyWrite(data, write) ==
    IF write = "clear" THEN EmptyDict
    ELSE IF write = "none" THEN data
    ELSE Put(data, "stage", write)

\* Mutant: the slot is looked up in the ledger as it was before the last
\* call, and the entry is inserted into the ledger as it is now.
StartHandlerStaleCheck(t, u, text) ==
    LET data == user_data[u]
        r == Dispatch(data, call.before, lower(text))
        w == AfterAwait(data, call.before, lower(text))
    IN /\ ~tasks[t].busy
       /\ Len(log.msgs) < 2
       /\ agenda' = IF ~r.call.made THEN agenda
                    ELSE IF ~r.call.ret THEN DeleteCliente(agenda, r.call.cliente)
                    ELSE Append(DeleteCliente(agenda, r.call.cliente),
                                [hora |-> r.call.horario, cliente |-> r.call.cliente,
                                 servico |-> r.call.servico])
       /\ user_data' = [user_data EXCEPT ![u] = IF w = "none" THEN r.data ELSE data]
       /\ update' = [update_id |-> update.update_id + 1, user |-> u,
                     text |-> text, error |-> r.error]
       /\ replies' = IF r.replies = <<>> THEN <<>> ELSE <<r.replies[1]>>
       /\ call' = Record([r.call EXCEPT !.before = agenda])
       /\ norm' = r.norm
       /\ tasks' = [tasks EXCEPT ![t] =
                       IF r.replies = <<>> THEN NoTask
                       ELSE [busy |-> TRUE, u |-> u, rest |-> Tail(r.replies),
                             write |-> w]]
       /\ log' = [log EXCEPT !.msgs = Append(@, [u |-> u, text |-> text])]

\* The coroutine of one inbound message starts and runs to its first
\* await (or to the exception that ends it).
StartHandler(t, u, text) ==
    LET data == user_data[u]
        r == Dispatch(data, agenda, lower(text))
        w == AfterAwait(data, agenda, lower(text))
    IN /\ ~tasks[t].busy
       /\ Len(log.msgs) < 2
       /\ agenda' = r.agenda
       /\ user_data' = [user_data EXCEPT ![u] = IF w = "none" THEN r.data ELSE data]
       /\ update' = [update_id |-> update.update_id + 1, user |-> u,
                     text |-> text, error |-> r.error]
       /\ replies' = IF r.replies = <<>> THEN <<>> ELSE <<r.replies[1]>>
       /\ call' = Record(r.call)
       /\ norm' = r.norm
       /\ tasks' = [tasks EXCEPT ![t] =
                       IF r.replies = <<>> THEN NoTask
                       ELSE [busy |-> TRUE, u |-> u, rest |-> Tail(r.replies),
                             write |-> w]]
       /\ log' = [log EXCEPT !.msgs = Append(@, [u |-> u, text |-> text])]

\* The awaited reply_text returns: the coroutine goes on to its next await,
\* or makes its last write and ends.
ResumeHandler(t) ==
    /\ tasks[t].busy
    /\ IF tasks[t].rest # <<>>
       THEN /\ replies' = <<Head(tasks[t].rest)>>
            /\ tasks' = [tasks EXCEPT ![t].rest = Tail(@)]
            /\ UNCHANGED user_data
       ELSE /\ replies' = <<>>
            /\ tasks' = [tasks EXCEPT ![t] = NoTask]
            /\ user_data' = [user_data EXCEPT ![tasks[t].u] =
                                ApplyWrite(@, tasks[t].write)]
    /\ UNCHANGED <<agenda, update, call, norm, log>>

\* The messages of `texts` handled one after the other.
RECURSIVE RunTexts(_, _, _)
RunTexts(data, ag, texts) ==
    IF texts = <<>> THEN [data |-> data, agenda |-> ag]
    ELSE LET r == Dispatch(data, ag, lower(Head(texts)))
         IN RunTexts(r.data, r.agenda, Tail(texts))

\* The session of a user at each stage of the dialogue.
SeedSessions(name) ==
    { RunTexts(EmptyDict, <<>>, p).data :
        p \in { <<>>, <<AGENDAR>>, <<AGENDAR, name>>, <<AGENDAR, name, <<"1">>>>,
                <<OBRIGADO>>, <<OBRIGADO, SIM>> } }

SeedLedgers ==
    { <<>>, RunTexts(EmptyDict, <<>>, <<AGENDAR, BIA, <<"2">>, <<"9">>>>).agenda }

ConcTexts == { AGENDAR, OBRIGADO, SIM, <<"9">>, <<"2">> }

InitConc ==
    /\ agenda \in SeedLedgers
    /\ user_data \in { [u \in Users |-> IF u = "u1" THEN d1 ELSE d2] :
                         d1 \in SeedSessions(ANA), d2 \in SeedSessions(LEO) }
    /\ update = NoUpdate
    /\ replies = <<>>
    /\ call = NoCall
    /\ norm = NoNorm
    /\ log = [start |-> [user_data |-> user_data, agenda |-> agenda], msgs |-> <<>>]
    /\ tasks = NoTasks

NextConc ==
    \/ \E t \in Tasks, u \in Users, text \in ConcTexts : StartHandler(t, u, text)
    \/ \E t \in Tasks : ResumeHandler(t)

SpecConc == InitConc /\ [][NextConc]_vars

----------------------------------------------------------------------------
(* Four messages, followed text by text, of a user whose session an        *)
(* earlier dialogue left at stage 'nome', 'finalizar' or 'opcao', with or   *)
(* without the name and the service of that dialogue still in the dict      *)

LeftSessions ==
    { RunTexts(EmptyDict, <<>>, p).data :
        p \in { <<>>,
                <<OBRIGADO>>, <<OBRIGADO, SIM>>,
                <<AGENDAR, LEO, <<"2">>, AGENDAR>>,
                <<AGENDAR, LEO, <<"2">>, OBRIGADO>>,
                <<AGENDAR, LEO, <<"2">>, OBRIGADO, SIM>> } }

FollowUpTexts ==
    { AGENDAR, OBRIGADO, SIM, ANA, <<"1">>, <<"3">>, <<"9">>,
      <<"0", "9", ":", "0", "0">> }

InitFollowUp ==
    /\ agenda \in SeedLedgers
    /\ user_data \in { [u \in Users |-> IF u = "u1" THEN d ELSE EmptyDict] :
                         d \in LeftSessions }
    /\ update = NoUpdate
    /\ replies = <<>>
    /\ call = NoCall
    /\ norm = NoNorm
    /\ log = [start |-> agenda, session |-> user_data["u1"], texts |-> <<>>]
    /\ tasks = NoTasks

NextFollowUp ==
    /\ Len(log.texts) < 4
    /\ \E text \in FollowUpTexts :
          /\ handle_message("u1", text)
          /\ log' = [log EXCEPT !.texts = Append(@, text)]
    /\ UNCHANGED tasks

SpecFollowUp == InitFollowUp /\ [][NextFollowUp]_vars

----------------------------------------------------------------------------
(* Properties                                                              *)

\* The bookings of a ledger, as a set.
Entries(ag) == {ag[i] : i \in 1..Len(ag)}

\* The (hour, minute) a ledger key denotes.
SlotOf(key) == LET p == split(key) IN <<IntOf(p[1]), IntOf(p[2])>>

\* A non-empty run of decimal digits: a text that parses as an integer.
AllDecimal(s) == Len(s) > 0 /\ \A i \in 1..Len(s) : s[i] \in DecimalDigits

\* The "HH:MM" text of (h, m).
HHMM(h, m) == Format02d(h) \o <<":">> \o Format02d(m)

\* C1: no two bookings in the ledger denote the same time slot, slot
\* equality being by (hour, minute) and not by the textual key.
C1_NoTwoBookingsSameSlot ==
    \A i, j \in 1..Len(agenda) :
        i # j => SlotOf(agenda[i].hora) # SlotOf(agenda[j].hora)

\* C2: every key of the ledger is a valid TimeSlot: hour in [9,17], minute
\* in [0,59], and minute 0 whenever the hour is 17.
C2_KeysAreValidTimeSlots ==
    \A i \in 1..Len(agenda) :
        LET slot == SlotOf(agenda[i].hora) IN
        /\ slot[1] \in 9..17
        /\ slot[2] \in 0..59
        /\ slot[1] = 17 => slot[2] = 0

\* C3: no two bookings in the ledger have the same client name, whatever
\* sequence of verificar_agendamento calls produced the ledger.
C3_OneBookingPerCliente ==
    \A i, j \in 1..Len(agenda) :
        i # j => agenda[i].cliente # agenda[j].cliente

\* C3 witness: a client who held another slot has just booked again, and the
\* ledger holds bookings of several clients.
C3_Witness ==
    /\ call.made /\ call.ret
    /\ \E b \in Entries(call.before) :
          b.cliente = call.cliente /\ b.hora # call.horario
    /\ Len(agenda) >= 2

C5_BookedOnlyWhenFree ==
    call.made =>
        LET others == {b \in Entries(call.before) : b.cliente # call.cliente}
            new == [hora |-> call.horario, cliente |-> call.cliente,
                    servico |-> call.servico]
            atKey == {b \in Entries(agenda) : b.hora = call.horario}
        IN /\ call.ret => \A b \in others : b.hora # call.horario
           /\ new \in Entries(agenda) => call.ret
           /\ \A b \in others : b.hora = call.horario => atKey = {b}

\* C5 witness: a call for a key held by another client has been refused.
C5_Witness ==
    /\ call.made /\ ~call.ret
    /\ \E b \in Entries(agenda) :
          b.hora = call.horario /\ b.cliente # call.cliente

\* C6: for a client who holds slot S1, a call for a free slot S2 # S1
\* returns BOOKED, and afterwards the ledger holds S2 for the client and no
\* longer holds S1.
C6_RebookMovesBooking ==
    \A s1 \in Entries(call.before) :
        (/\ call.made
         /\ s1.cliente = call.cliente
         /\ s1.hora # call.horario
         /\ \A b \in Entries(call.before) : b.hora # call.horario)
        => /\ call.ret
           /\ [hora |-> call.horario, cliente |-> call.cliente,
               servico |-> call.servico] \in Entries(agenda)
           /\ \A b \in Entries(agenda) : b.hora # s1.hora

\* C6 witness: a client who held one slot has moved to a free one, another
\* client's booking standing by.
C6_Witness ==
    /\ call.made /\ call.ret
    /\ \E s1 \in Entries(call.before) :
          /\ s1.cliente = call.cliente
          /\ s1.hora # call.horario
          /\ \A b \in Entries(agenda) : b.hora # s1.hora
    /\ \A b \in Entries(call.before) : b.hora # call.horario
    /\ \E b \in Entries(agenda) : b.cliente # call.cliente

\* C7: when a client who holds slot S1 calls for a slot S2 held by another
\* client, the call returns CONFLICT, the other client's booking at S2 is
\* unchanged, and the caller's booking at S1 is gone from the ledger.
C7_ConflictStillCancels ==
    \A s1, s2 \in Entries(call.before) :
        (/\ call.made
         /\ s1.cliente = call.cliente
         /\ s2.cliente # call.cliente
         /\ s2.hora = call.horario)
        => /\ ~call.ret
           /\ {b \in Entries(agenda) : b.hora = call.horario} = {s2}
           /\ \A b \in Entries(agenda) :
                 b.hora # s1.hora /\ b.cliente # call.cliente

\* C7 witness: a client who held a slot has been refused another client's
\* slot and holds nothing any more.
C7_Witness ==
    /\ call.made /\ ~call.ret
    /\ \E s1, s2 \in Entries(call.before) :
          /\ s1.cliente = call.cliente
          /\ s2.cliente # call.cliente
          /\ s2.hora = call.horario
          /\ s2 \in Entries(agenda)
          /\ s1 \notin Entries(agenda)

\* C8: for every text that is a bare integer h with 9 <= h <= 17,
\* formatar_horario returns the slot (h, 0), and the identifier returned is
\* the one the "HH:MM" text of (h, 0) yields.
C8_BareHourIsCanonical ==
    (norm.made /\ AllDecimal(norm.text) /\ IntOf(norm.text) \in 9..17)
    => /\ norm.kind = "str"
       /\ SlotOf(norm.val) = <<IntOf(norm.text), 0>>
       /\ norm.val = formatar_horario(HHMM(IntOf(norm.text), 0)).val

\* C9: every text "17:MM" with MM in 01..59 is INVALID; 17:00 is the only
\* accepted time with hour 17.
C9_SeventeenOnlyOnTheHour ==
    norm.made =>
        /\ (/\ Len(norm.text) = 5
            /\ SubSeq(norm.text, 1, 3) = <<"1", "7", ":">>
            /\ AllDecimal(SubSeq(norm.text, 4, 5))
            /\ IntOf(SubSeq(norm.text, 4, 5)) \in 1..59)
           => norm.kind = "None"
        /\ (norm.kind = "str" /\ SlotOf(norm.val)[1] = 17)
           => SlotOf(norm.val)[2] = 0

\* C10: formatar_horario returns INVALID for every text whose hour is
\* outside [9,17], whose minute is outside [0,59], that has a non-numeric
\* part, or that does not split on ':' into exactly two numeric parts.
C10_InvalidTextsReturnNone ==
    norm.made =>
        LET p == split(norm.text) IN
        (\/ Len(p) = 1 /\ (~AllDecimal(p[1]) \/ IntOf(p[1]) \notin 9..17)
         \/ Len(p) > 2
         \/ Len(p) = 2 /\ (\/ ~AllDecimal(p[1])
                           \/ ~AllDecimal(p[2])
                           \/ IntOf(p[1]) \notin 9..17
                           \/ IntOf(p[2]) \notin 0..59))
        => norm.kind = "None"


\* The service codes of the menu.
Codes == {<<"1">>, <<"2">>, <<"3">>}

\* C11: from a fresh session and a ledger in which the chosen slot is free,
\* the messages "agendar", a name N, a service code c, a valid time t move
\* the stage through 'nome', 'servico', 'horario' and end with the ledger
\* holding exactly one new booking, normalize(t): N / c, and the session
\* empty again.  N is any text but the two words the handler takes as
\* commands before it looks at the stage; it is stored lower-cased.
C11_BookingDialogue ==
    LET t == [i \in 1..Len(log.texts) |-> lower(log.texts[i])]
        n == Len(t)
        d == user_data["u1"]
    IN (n >= 1 /\ t[1] = AGENDAR) =>
       /\ n = 1 => GetStage(d) = "nome"
       /\ (n >= 2 /\ t[2] \notin {AGENDAR, OBRIGADO}) =>
          /\ n = 2 => GetStage(d) = "servico"
          /\ (n >= 3 /\ t[3] \in Codes) =>
             /\ n = 3 => GetStage(d) = "horario"
             /\ (/\ n = 4
                 /\ formatar_horario(t[4]).kind = "str"
                 /\ \A b \in Entries(log.start) :
                       b.hora # formatar_horario(t[4]).val) =>
                /\ Entries(agenda) \ Entries(log.start) =
                      {[hora |-> formatar_horario(t[4]).val, cliente |-> t[2],
                        servico |-> t[3]]}
                /\ \A b \in Entries(log.start) \ Entries(agenda) :
                      b.cliente = t[2]
                /\ d = EmptyDict

\* C11 witness: the four messages have booked a free slot beside the bookings
\* of a ledger that already held some, and the session is empty again.
C11_Witness ==
    /\ Len(log.texts) = 4
    /\ lower(log.texts[1]) = AGENDAR
    /\ call.made /\ call.ret
    /\ Len(log.start) >= 1
    /\ Len(agenda) = Len(log.start) + 1
    /\ user_data["u1"] = EmptyDict


\* C12: when a user at stage 'horario' submits a valid time whose slot is
\* held by a different client, the result is CONFLICT: the stage stays
\* 'horario', the session keeps its name and service code, and the other
\* client's booking is unchanged.
C12_ConflictKeepsSession ==
    \A b \in Entries(call.before) :
        (/\ call.made
         /\ b.cliente # call.cliente
         /\ SlotOf(b.hora) = SlotOf(call.horario))
        => /\ ~call.ret
           /\ GetStage(user_data[update.user]) = "horario"
           /\ user_data[update.user]["nome"] = call.cliente
           /\ user_data[update.user]["servico"] = call.servico
           /\ b \in Entries(agenda)


\* C13: after a client who holds slot S1 has booked a free slot S2, the
\* ledger lists only the S2 booking for that client, and the next booking
\* attempt, for S1 by another client, succeeds.
C13_OldSlotIsFreed ==
    \A s1 \in Entries(call.prev.before) :
        (/\ call.made /\ call.prev.made /\ call.prev.ret
         /\ s1.cliente = call.prev.cliente
         /\ SlotOf(s1.hora) # SlotOf(call.prev.horario)
         /\ \A b \in Entries(call.prev.before) :
               SlotOf(b.hora) # SlotOf(call.prev.horario))
        => /\ \A b \in Entries(call.before) :
                 b.cliente = call.prev.cliente => b.hora = call.prev.horario
           /\ (/\ call.cliente # call.prev.cliente
               /\ SlotOf(call.horario) = SlotOf(s1.hora))
              => call.ret


----------------------------------------------------------------------------
(* One handler run, seen as a step: the stage it found and the text it read *)

\* The step is a handler run that found the sender at `stage`.
Handles(stage) ==
    /\ update'.update_id = update.update_id + 1
    /\ GetStage(user_data[update'.user]) = stage

\* The step is a handler run, at whatever stage.
HandlerRun == update'.update_id = update.update_id + 1

\* message_text of the run (line 45).
MessageText == lower(update'.text)

\* The sender's dict before and after the run.
Before == user_data[update'.user]
After == user_data'[update'.user]

\* C14: the ledger changes only in a run at stage 'horario' whose text
\* normalises to a slot; at any other stage, and for an invalid time at
\* stage 'horario', the ledger is unchanged.
C14_LedgerOnlyAtAwaitingTime ==
    [][ (\/ GetStage(Before) # "horario"
         \/ formatar_horario(MessageText).kind # "str")
        => agenda' = agenda ]_vars

C14_Witness ==
    /\ Len(agenda) > 0
    /\ ~call.made /\ norm.made /\ norm.kind = "None"
    /\ GetStage(user_data[update.user]) = "horario"

\* C15 as stated: at stage 'nome' every text, "agendar", "obrigado" and
\* "ver agendamentos" included, is stored as the name and the stage becomes
\* 'servico'.
C15_EveryTextIsStoredAsName ==
    [][ Handles("nome")
        => /\ GetStage(After) = "servico"
           /\ "nome" \in DOMAIN After /\ After["nome"] = MessageText ]_vars

\* C15 amended: at stage 'nome' every text other than "agendar" and
\* "obrigado" ("ver agendamentos" included) is stored, lower-cased, as the
\* name and the stage becomes 'servico'.
C15_NonCommandTextIsStoredAsName ==
    [][ (Handles("nome") /\ MessageText \notin {AGENDAR, OBRIGADO})
        => /\ GetStage(After) = "servico"
           /\ "nome" \in DOMAIN After /\ After["nome"] = MessageText
           /\ \A k \in DOMAIN Before \ {"stage", "nome"} :
                 k \in DOMAIN After /\ After[k] = Before[k] ]_vars

C15_Witness ==
    /\ lower(update.text) = VER_AGENDAMENTOS
    /\ GetStage(user_data[update.user]) = "servico"
    /\ user_data[update.user]["nome"] = VER_AGENDAMENTOS
    /\ replies = <<Reply("Escolha o numero do servico desejado")>>

\* C16 as stated: at stage 'horario' every text for which the normaliser
\* returns None ("agendar" and "obrigado" included) leaves the stage, the
\* name, the service and the ledger unchanged.
C16_InvalidTimeKeepsStage ==
    [][ (Handles("horario") /\ formatar_horario(MessageText).kind = "None")
        => /\ GetStage(After) = "horario"
           /\ After = Before
           /\ agenda' = agenda ]_vars

\* C16 amended: the same for every such text other than "agendar" and
\* "obrigado".
C16_InvalidNonCommandKeepsStage ==
    [][ (/\ Handles("horario")
         /\ formatar_horario(MessageText).kind = "None"
         /\ MessageText \notin {AGENDAR, OBRIGADO})
        => /\ GetStage(After) = "horario"
           /\ After = Before
           /\ agenda' = agenda ]_vars

C16_Witness ==
    /\ norm.made /\ norm.kind = "None" /\ norm.text = lower(update.text)
    /\ GetStage(user_data[update.user]) = "horario"
    /\ {"nome", "servico"} \subseteq DOMAIN user_data[update.user]
    /\ replies = <<Reply("Formato de horario invalido")>>


\* C17 as stated: at stage 'servico' every text other than "1", "2", "3"
\* leaves the stage at 'servico', with no service stored and the name
\* unchanged.
C17_InvalidOptionKeepsServico ==
    [][ (Handles("servico") /\ MessageText \notin Codes)
        => /\ GetStage(After) = "servico"
           /\ "servico" \notin DOMAIN After
           /\ After["nome"] = Before["nome"] ]_vars

\* C17 amended: at stage 'servico' every text other than "1", "2", "3",
\* "agendar" and "obrigado" leaves the stage at 'servico' and the name
\* and the service (unset, or left by an earlier pass) unchanged.
C17_InvalidNonCommandKeepsServico ==
    [][ (Handles("servico") /\ MessageText \notin Codes \cup {AGENDAR, OBRIGADO})
        => /\ GetStage(After) = "servico"
           /\ After = Before ]_vars

C17_Witness ==
    /\ lower(update.text) = <<"9">>
    /\ GetStage(user_data[update.user]) = "servico"
    /\ "nome" \in DOMAIN user_data[update.user]
    /\ replies = <<Reply("Opcao invalida")>>

\* C18 as stated: at stage 'finalizar' every text other than "sim" clears
\* the session.
C18_NotSimResets ==
    [][ (Handles("finalizar") /\ MessageText # SIM)
        => After = EmptyDict ]_vars

\* C18 amended: at stage 'finalizar' every text other than "sim",
\* "agendar", "obrigado" and "ver agendamentos" clears the session.
C18_NotSimNotCommandResets ==
    [][ (/\ Handles("finalizar")
         /\ MessageText \notin {SIM, AGENDAR, OBRIGADO, VER_AGENDAMENTOS})
        => After = EmptyDict ]_vars

C18_Witness ==
    /\ lower(update.text) = ANA
    /\ user_data[update.user] = EmptyDict
    /\ replies = <<Reply("Obrigado! Tenha um otimo dia!")>>

\* C19 as stated: at stage 'opcao' every text other than "1", "2", "3"
\* leaves the stage and the session fields unchanged.
C19_InvalidOptionKeepsOpcao ==
    [][ (Handles("opcao") /\ MessageText \notin Codes)
        => /\ GetStage(After) = "opcao"
           /\ After = Before ]_vars

\* C19 amended: the same for every such text other than "agendar" and
\* "obrigado".
C19_InvalidNonCommandKeepsOpcao ==
    [][ (Handles("opcao") /\ MessageText \notin Codes \cup {AGENDAR, OBRIGADO})
        => /\ GetStage(After) = "opcao"
           /\ After = Before ]_vars

C19_Witness ==
    /\ lower(update.text) = ANA
    /\ GetStage(user_data[update.user]) = "opcao"
    /\ replies = <<Reply("Opcao invalida")>>

\* C20: with no stage set, every text other than "agendar", "ver
\* agendamentos" and "obrigado" leaves the session without any field and
\* the ledger unchanged.
C20_IdleIgnoresOtherTexts ==
    [][ (/\ Handles("None")
         /\ MessageText \notin {AGENDAR, VER_AGENDAMENTOS, OBRIGADO})
        => /\ After = EmptyDict
           /\ agenda' = agenda ]_vars

C20_Witness ==
    /\ lower(update.text) = <<"9">>
    /\ Len(agenda) > 0
    /\ user_data[update.user] = EmptyDict
    /\ replies = <<Reply("tudo bom? Caso queira agendar um servico, digite agendar.")>>


\* C21: after a run that booked (verificar_agendamento returned True), a
\* run at stage 'finalizar' that took the answer as a decline (lines
\* 102-104: any text that is not "sim" and not taken by lines 55-60 or 91),
\* or a run at stage 'opcao' with "2" or "3", the sender's dict is empty:
\* no stage, no name, no service.
C21_SessionClearedAtTheEnd ==
    [][ (\/ HandlerRun /\ call'.made /\ call'.ret
         \/ /\ Handles("finalizar")
            /\ MessageText \notin {SIM, AGENDAR, OBRIGADO, VER_AGENDAMENTOS}
         \/ Handles("opcao") /\ MessageText \in {<<"2">>, <<"3">>})
        => /\ After = EmptyDict
           /\ GetStage(After) = "None" ]_vars

C21_Witness ==
    /\ lower(update.text) = <<"2">>
    /\ replies = <<Reply("Voce esta em espera.")>>
    /\ user_data[update.user] = EmptyDict


\* C22: no session is stuck: from every reachable session and ledger, some
\* sequence of messages of that user (two are enough: "obrigado", then an
\* answer the 'finalizar' branch takes as a decline) empties the dict again.
C22_IdleIsTwoMessagesAway ==
    \A u \in Users :
        \E t1, t2 \in TextsAll :
            LET r1 == Dispatch(user_data[u], agenda, lower(t1))
                r2 == Dispatch(r1.data, r1.agenda, lower(t2))
            IN r2.error = "" /\ r2.data = EmptyDict

C22_Witness ==
    /\ GetStage(user_data["u1"]) = "horario"
    /\ Len(agenda) = 1
    /\ call.made /\ ~call.ret


\* (hour, minute) s is not later than t.
NotLater(s, t) == s[1] < t[1] \/ (s[1] = t[1] /\ s[2] <= t[2])

\* C23: the "ver agendamentos" listing gives the bookings in ascending
\* order of their time slot, whatever the order they were made in.
C23_ListingIsAscending ==
    (replies # <<>> /\ replies[1].text = "Agendamentos do dia")
    => \A i, j \in 1..Len(replies[1].linhas) :
          i < j => NotLater(SlotOf(replies[1].linhas[i].hora),
                            SlotOf(replies[1].linhas[j].hora))


----------------------------------------------------------------------------
(* Handlers in flight                                                      *)

\* No handler is suspended at an await.
Quiescent == \A t \in Tasks : ~tasks[t].busy

\* The sessions and the ledger that the messages of `msgs` leave when each
\* is handled to completion before the next is taken.
RECURSIVE RunMsgs(_, _)
RunMsgs(st, msgs) ==
    IF msgs = <<>> THEN st
    ELSE LET m == Head(msgs)
             r == Dispatch(st.user_data[m.u], st.agenda, lower(m.text))
         IN RunMsgs([user_data |-> [st.user_data EXCEPT ![m.u] = r.data],
                     agenda |-> r.agenda],
                    Tail(msgs))

Reversed(msgs) == [i \in 1..Len(msgs) |-> msgs[Len(msgs) + 1 - i]]

\* A handler that nothing interrupts does what handle_message does.
AloneIsSequential ==
    (Quiescent /\ Len(log.msgs) = 1)
    => [user_data |-> user_data, agenda |-> agenda] = RunMsgs(log.start, log.msgs)

\* C24: with the handlers of two users interleaved at their awaits, every
\* call of verificar_agendamento still runs as a whole: no key is in the
\* ledger twice, and the ledger is at every moment the one that the calls
\* made one after the other, in the order the handlers started, leave.
C24_TryBookIsAtomic ==
    /\ \A i, j \in 1..Len(agenda) : agenda[i].hora = agenda[j].hora => i = j
    /\ (\A i, j \in 1..Len(log.msgs) : log.msgs[i].u = log.msgs[j].u => i = j)
       => agenda = RunMsgs(log.start, log.msgs).agenda

C24_Witness ==
    /\ tasks[1].busy /\ tasks[2].busy /\ tasks[1].u # tasks[2].u
    /\ call.made /\ call.prev.made
    /\ call.horario = call.prev.horario /\ call.cliente # call.prev.cliente
    /\ call.prev.ret /\ ~call.ret
    /\ Len(call.prev.before) = 0

----------------------------------------------------------------------------

\* C26: handling a message of one user leaves the dict (stage, name,
\* service) of every other user as it was.
C26_OtherSessionsUntouched ==
    [][ HandlerRun
        => \A v \in Users \ {update'.user} : user_data'[v] = user_data[v] ]_vars

C26_Witness ==
    /\ update.user = "u1"
    /\ GetStage(user_data["u1"]) = "servico"
    /\ GetStage(user_data["u2"]) = "horario"
    /\ user_data["u1"]["nome"] # user_data["u2"]["nome"]

\* C27: an entry leaves the ledger only in a run that calls
\* verificar_agendamento with the entry's own client name; a listing, a
\* conflict on another client's slot, a session reset and every other run
\* remove nothing.
C27_OnlySupersessionRemoves ==
    [][ \A b \in Entries(agenda) \ Entries(agenda') :
           HandlerRun /\ call'.made /\ call'.cliente = b.cliente ]_vars

C27_Witness ==
    /\ call.made /\ ~call.ret
    /\ \E b \in Entries(call.before) \ Entries(agenda) : b.cliente = call.cliente
    /\ \E b \in Entries(agenda) : b.cliente # call.cliente /\ b.hora = call.horario


\* str.strip(), for the blank.
RECURSIVE lstrip(_)
lstrip(s) == IF s # <<>> /\ Head(s) = " " THEN lstrip(Tail(s)) ELSE s

RECURSIVE rstrip(_)
rstrip(s) ==
    IF s # <<>> /\ s[Len(s)] = " " THEN rstrip(SubSeq(s, 1, Len(s) - 1)) ELSE s

strip(s) == rstrip(lstrip(s))

ControlWords == {AGENDAR, OBRIGADO, SIM, VER_AGENDAMENTOS} \cup Codes

\* C28: a control word with blanks before or after it is handled as the
\* bare control word is: same session, same ledger, same replies.
C28_ControlWordsAreTrimmed ==
    [][ (HandlerRun /\ strip(MessageText) \in ControlWords)
        => LET r == Dispatch(Before, agenda, strip(MessageText))
           IN After = r.data /\ agenda' = r.agenda /\ replies' = r.replies ]_vars

\* C29: every message, at every stage and with every text, is answered by
\* at least one reply; a message that books is answered by the
\* confirmation and then the closing message.
C29_EveryMessageIsAnswered ==
    update.update_id > 0
    => /\ Len(replies) >= 1
       /\ (call.made /\ call.ret)
          => /\ Len(replies) = 2
             /\ replies[1].text = "Agendado"
             /\ replies[2].text = "Obrigado! Tenha um otimo dia!"

\* C30: with no stage set, "ver agendamentos" leaves the session without a
\* stage and the ledger as it was; it sends the listing, one line per
\* booking, exactly when the ledger has a booking, and the "no bookings"
\* message exactly when it has none.
C30_IdleListing ==
    [][ (Handles("None") /\ MessageText = VER_AGENDAMENTOS)
        => /\ After = EmptyDict
           /\ agenda' = agenda
           /\ Len(replies') = 1
           /\ replies'[1].text = IF Len(agenda) > 0 THEN "Agendamentos do dia"
                                 ELSE "Nao ha agendamentos em espera."
           /\ Len(replies'[1].linhas) = Len(agenda)
           /\ \A i \in 1..Len(agenda) :
                 /\ replies'[1].linhas[i].hora = agenda[i].hora
                 /\ replies'[1].linhas[i].cliente = agenda[i].cliente ]_vars

C30_Witness ==
    /\ lower(update.text) = VER_AGENDAMENTOS
    /\ user_data[update.user] = EmptyDict
    /\ Len(agenda) = 2
    /\ Len(replies) = 1 /\ replies[1].text = "Agendamentos do dia"
    /\ Len(replies[1].linhas) = 2


----------------------------------------------------------------------------
(* The dialogue followed from a session that an earlier one left           *)

\* The texts of the run as the handler reads them (line 45).
LogTexts == [i \in 1..Len(log.texts) |-> lower(log.texts[i])]

\* The stage the k-th message of the run found.
StageAt(k) ==
    GetStage(RunTexts(log.session, log.start, SubSeq(log.texts, 1, k - 1)).data)

\* C31: at stage 'opcao', "1" sets the stage to 'nome', and the dialogue
\* completed from there (a name, a service code, a time) calls
\* verificar_agendamento, and books, with that name and that code.
C31_RebookAsksAgain ==
    LET t == LogTexts
        n == Len(t)
    IN (GetStage(log.session) = "opcao" /\ n >= 1 /\ t[1] = <<"1">>)
       => /\ n = 1 => GetStage(user_data["u1"]) = "nome"
          /\ (n = 4 /\ t[2] \notin {AGENDAR, OBRIGADO} /\ t[3] \in Codes
              /\ formatar_horario(t[4]).kind = "str")
             => /\ call.made
                /\ call.cliente = t[2] /\ call.servico = t[3]
                /\ call.ret
                   => [hora |-> call.horario, cliente |-> t[2],
                       servico |-> t[3]] \in Entries(agenda)

C31_Witness ==
    /\ Len(log.texts) = 4 /\ log.texts[1] = <<"1">>
    /\ GetStage(log.session) = "opcao"
    /\ "nome" \in DOMAIN log.session /\ log.session["nome"] = LEO
    /\ call.made /\ call.ret /\ call.cliente = ANA /\ call.servico = <<"3">>

\* C37: every call of verificar_agendamento is made with the name and the
\* service code that the user entered in the dialogue it ends: the name at
\* the last 'nome' step, the code at the last 'servico' step after it, and
\* between the name and the call the session never left the stages
\* 'servico' and 'horario'.  A name or a code that an earlier dialogue left
\* in the dict is never used.
C37_BookingUsesThisDialogue ==
    LET t == LogTexts
        n == Len(t)
    IN (n >= 1 /\ call.made)
       => \E j, i \in 1..n :
             /\ j < i /\ i < n
             /\ StageAt(j) = "nome" /\ call.cliente = t[j]
             /\ StageAt(i) = "servico" /\ call.servico = t[i] /\ t[i] \in Codes
             /\ \A k \in (j + 1)..(i - 1) : StageAt(k) = "servico"
             /\ \A k \in (i + 1)..n : StageAt(k) = "horario"

C37_Witness ==
    /\ Len(log.texts) = 3
    /\ GetStage(log.session) = "nome"
    /\ "nome" \in DOMAIN log.session /\ log.session["nome"] = LEO
    /\ log.session["servico"] = <<"2">>
    /\ call.made /\ call.cliente = ANA /\ call.servico = <<"1">>


----------------------------------------------------------------------------

\* C32: a session at stage 'horario' always has a name and has a service
\* code among "1", "2", "3": the reads of lines 79-80 never raise KeyError.
C32_HorarioHasNameAndService ==
    /\ update.error # "KeyError"
    /\ \A u \in Users :
          GetStage(user_data[u]) = "horario"
          => /\ "nome" \in DOMAIN user_data[u]
             /\ "servico" \in DOMAIN user_data[u]
             /\ user_data[u]["servico"] \in Codes

C32_Witness ==
    /\ call.made /\ ~call.ret
    /\ GetStage(user_data[update.user]) = "horario"
    /\ user_data[update.user]["nome"] = call.cliente
    /\ user_data[update.user]["servico"] = call.servico

\* C33: every booking in the ledger has a service code among "1", "2",
\* "3", so the listing finds a service name for every line.
C33_LedgerServicesAreCodes ==
    /\ \A b \in Entries(agenda) : b.servico \in Codes
    /\ \A i \in 1..Len(replies) : \A k \in 1..Len(replies[i].linhas) :
          replies[i].linhas[k].servico_nome
             \in {"Corte de cabelo", "Barba", "Corte e Barba"}

C33_Witness ==
    /\ Len(replies) = 1 /\ replies[1].text = "Agendamentos do dia"
    /\ Len(replies[1].linhas) = 1
    /\ \E b \in Entries(agenda) : b.servico = <<"3">>

\* C34: at every stage "agendar" sets the stage to 'nome' and "obrigado"
\* sets it to 'finalizar'; the name and the service in the dict, and the
\* ledger, stay as they were.
C34_CommandsAtEveryStage ==
    [][ (HandlerRun /\ MessageText \in {AGENDAR, OBRIGADO})
        => /\ GetStage(After) = IF MessageText = AGENDAR THEN "nome"
                                ELSE "finalizar"
           /\ DOMAIN After = DOMAIN Before \cup {"stage"}
           /\ \A k \in DOMAIN Before \ {"stage"} : After[k] = Before[k]
           /\ agenda' = agenda ]_vars

C34_Witness ==
    /\ lower(update.text) = OBRIGADO
    /\ GetStage(user_data[update.user]) = "finalizar"
    /\ {"nome", "servico"} \subseteq DOMAIN user_data[update.user]
    /\ Len(agenda) > 0


\* C35: a user who reaches stage 'horario' under the name of a booking that
\* another user's dialogue made, and gives a valid time, removes that
\* booking; when the time is the very slot of that booking, the call
\* returns True.
C35_SupersessionByNameAlone ==
    call.made
    => \A b \in Entries(call.before) :
          b.cliente = call.cliente
          => /\ b \in Entries(agenda)
                => (call.ret /\ b.hora = call.horario /\ b.servico = call.servico)
             /\ SlotOf(b.hora) = SlotOf(call.horario) => call.ret


\* C36: a call with the slot key, the client and the service of a booking
\* the ledger already holds returns True and leaves the same set of (slot,
\* client, service) bookings; the ledger then holds that booking again, so
\* a repetition of the call finds the same and does the same.
C36_RebookingOwnSlotIsIdempotent ==
    (/\ call.made
     /\ [hora |-> call.horario, cliente |-> call.cliente,
         servico |-> call.servico] \in Entries(call.before))
    => /\ call.ret
       /\ Entries(agenda) = Entries(call.before)
       /\ [hora |-> call.horario, cliente |-> call.cliente,
           servico |-> call.servico] \in Entries(agenda)

C36_Witness ==
    /\ call.made /\ call.ret /\ call.prev.made /\ call.prev.ret
    /\ call.prev.horario = call.horario /\ call.prev.cliente = call.cliente
    /\ Len(call.prev.before) = 2 /\ Len(call.before) = 2
    /\ Entries(call.prev.before) = Entries(call.before)
    /\ Entries(agenda) = Entries(call.before)

====
